---- MODULE Spec2Model ----
(***************************************************************************)
(* Model of the Kettle class of kettle.py and of the loops of main.         *)
(* Spec is a Kettle whose methods are called in any order; MainSpec is     *)
(* main driving its Kettle.                                                *)
(*                                                                         *)
(* Units.  Volumes are counted in tenths of a litre, temperatures in       *)
(* degrees, time in clock ticks; the configuration read in __init__ is the *)
(* one of the specification's scenario (0.2 l, 1.0 l, 20 deg, 100 deg)     *)
(* with a boiling time of BoilingTime ticks.  BoilingTime divides          *)
(* (MaxTemperature - StartTemperature), so the ramp                        *)
(*   (max_temperature - start_temperature) * (e / boiling_time)            *)
(* is an integer at every tick and \div computes it exactly.               *)
(***************************************************************************)
EXTENDS Integers, Sequences, FiniteSets, TLC

\* ---- configuration (settings.config, read in Kettle.__init__) ----
MinVolume == 2
MaxVolume == 10
StartTemperature == 20
MaxTemperature == 100
BoilingTime == 4

\* ---- bounds of the exploration ----
\* the clock runs from 0 to MaxTime
MaxTime == 6
\* fill_in is tried with every volume from -Excess to MaxVolume + Excess
\* (and with NaN)
Excess == 1
\* the history counter starts saturates at MaxStarts
MaxStarts == 2

\* ---- KettleStatus ----
ON == "on"
OFF == "off"
READY == "ready"
STOPPED == "stopped"
KettleStatus == {ON, OFF, READY, STOPPED}

\* start_time is not an attribute of the object until _start assigns it
NoTime == -1

\* The float NaN, which float(input()) returns for the line "nan", is
\* written as a number that is no volume of the model; the comparisons of
\* floats below treat it as Python does: every comparison with NaN is False.
NaN == 99

\* a < b, a > b, a <= b, a >= b on floats
Lt(a, b) == a # NaN /\ b # NaN /\ a < b
Gt(a, b) == a # NaN /\ b # NaN /\ a > b
Le(a, b) == a # NaN /\ b # NaN /\ a <= b
Ge(a, b) == a # NaN /\ b # NaN /\ a >= b

\* the volumes fill_in is called with
FillInputs == ((0 - Excess)..(MaxVolume + Excess)) \cup {NaN}

VARIABLES
    volume,       \* self.volume
    status,       \* self.status
    temperature,  \* self.temperature
    start_time,   \* self.start_time (NoTime while the attribute is absent)
    now,          \* the value time.time() returns
    last,         \* the last call of a public method: what was called, in
                  \* which status, with which argument, and how it ended
    starts,       \* history: the successful _start calls since the last
                  \* successful pour_out (or since __init__), counted up to
                  \* MaxStarts
    sampled,      \* history: the last two samples <<time since start,
                  \* temperature returned>> that check_condition took in
                  \* status ON since the last successful _start, oldest first
    pc,           \* main: the statement main executes next
    current_status,  \* main: current_status ("none" before its assignment)
    condition,    \* main: condition, as <<status, temperature>> (<<>> before
                  \* its assignment)
    pending       \* main: the exception raised in the except clause that is
                  \* in flight while the finally clause runs ("none": none)

\* the local state of main
main_vars == <<pc, current_status, condition, pending>>

vars == <<volume, status, temperature, start_time, now, last, starts, sampled,
          main_vars>>

\* the attributes of the Kettle object
kettle == <<volume, status, temperature, start_time>>

\* a public method op, called with arguments arg, returns the values ret
Return(op, arg, ret) ==
    last' = [op |-> op, from |-> status, arg |-> arg, err |-> "none", ret |-> ret]

\* a public method op, called with arguments arg, raises the exception err
Raise(op, arg, err) ==
    last' = [op |-> op, from |-> status, arg |-> arg, err |-> err, ret |-> <<>>]

\* the history sampled after one more sample: only the last two are kept
Recent(samples, sample) ==
    IF Len(samples) < 2
    THEN Append(samples, sample)
    ELSE <<samples[2], sample>>

\* Kettle.__init__
Init ==
    /\ volume = 0
    /\ temperature = StartTemperature
    /\ status = OFF
    /\ start_time = NoTime
    /\ now = 0
    /\ last = [op |-> "__init__", from |-> OFF, arg |-> <<>>, err |-> "none", ret |-> <<>>]
    /\ starts = 0
    /\ sampled = <<>>
    /\ pc = "fill"
    /\ current_status = "none"
    /\ condition = <<>>
    /\ pending = "none"

\* fill_in as it would be if the water were added to the water already held
fill_in_adds(v) ==
    IF Lt(v, 0)
    THEN /\ Raise("fill_in", <<v>>, "KettleFillingError")
         /\ UNCHANGED <<kettle, now, starts, sampled>>
    ELSE IF Gt(v, MaxVolume)
    THEN /\ Raise("fill_in", <<v>>, "KettleFillingError")
         /\ UNCHANGED <<kettle, now, starts, sampled>>
    ELSE /\ volume' = volume + v
         /\ Return("fill_in", <<v>>, <<>>)
         /\ UNCHANGED <<status, temperature, start_time, now, starts, sampled>>

\* fill_in as it would be without the test against max_volume
fill_in_no_upper_check(v) ==
    IF Lt(v, 0)
    THEN /\ Raise("fill_in", <<v>>, "KettleFillingError")
         /\ UNCHANGED <<kettle, now, starts, sampled>>
    ELSE /\ volume' = v
         /\ Return("fill_in", <<v>>, <<>>)
         /\ UNCHANGED <<status, temperature, start_time, now, starts, sampled>>

\* fill_in as it would be without the test for a negative volume
fill_in_no_lower_check(v) ==
    IF Gt(v, MaxVolume)
    THEN /\ Raise("fill_in", <<v>>, "KettleFillingError")
         /\ UNCHANGED <<kettle, now, starts, sampled>>
    ELSE /\ volume' = v
         /\ Return("fill_in", <<v>>, <<>>)
         /\ UNCHANGED <<status, temperature, start_time, now, starts, sampled>>

\* Kettle.fill_in(volume)
fill_in(v) ==
    IF Lt(v, 0)
    THEN /\ Raise("fill_in", <<v>>, "KettleFillingError")
         /\ UNCHANGED <<kettle, now, starts, sampled>>
    ELSE IF Gt(v, MaxVolume)
    THEN /\ Raise("fill_in", <<v>>, "KettleFillingError")
         /\ UNCHANGED <<kettle, now, starts, sampled>>
    ELSE /\ volume' = v
         /\ Return("fill_in", <<v>>, <<>>)
         /\ UNCHANGED <<status, temperature, start_time, now, starts, sampled>>

\* pour_out as it would be without the test of the status
pour_out_unguarded ==
    /\ volume' = 0
    /\ status' = OFF
    /\ Return("pour_out", <<>>, <<volume>>)
    /\ starts' = 0
    /\ UNCHANGED sampled
    /\ UNCHANGED <<temperature, start_time, now>>

\* pour_out as it would be if it returned self.volume after resetting it
pour_out_returns_after_reset ==
    IF status = ON
    THEN /\ Raise("pour_out", <<>>, "KettlePouringError")
         /\ UNCHANGED <<kettle, now, starts, sampled>>
    ELSE /\ volume' = 0
         /\ status' = OFF
         /\ Return("pour_out", <<>>, <<volume'>>)
         /\ starts' = 0
         /\ UNCHANGED sampled
         /\ UNCHANGED <<temperature, start_time, now>>

\* pour_out as it would be if the empty kettle went back to start_temperature
pour_out_cools ==
    IF status = ON
    THEN /\ Raise("pour_out", <<>>, "KettlePouringError")
         /\ UNCHANGED <<kettle, now, starts, sampled>>
    ELSE /\ volume' = 0
         /\ status' = OFF
         /\ temperature' = StartTemperature
         /\ Return("pour_out", <<>>, <<volume>>)
         /\ starts' = 0
         /\ UNCHANGED sampled
         /\ UNCHANGED <<start_time, now>>

\* Kettle.pour_out()
pour_out ==
    IF status = ON
    THEN /\ Raise("pour_out", <<>>, "KettlePouringError")
         /\ UNCHANGED <<kettle, now, starts, sampled>>
    ELSE /\ volume' = 0
         /\ status' = OFF
         /\ Return("pour_out", <<>>, <<volume>>)
         /\ starts' = 0
         /\ UNCHANGED sampled
         /\ UNCHANGED <<temperature, start_time, now>>

\* _start as it would be without the test of the water level
_start_dry ==
    /\ start_time' = now
    /\ status' = ON
    /\ Return("switch", <<>>, <<>>)
    /\ starts' = IF starts < MaxStarts THEN starts + 1 ELSE starts
    /\ sampled' = <<>>
    /\ UNCHANGED <<volume, temperature, now>>

\* _start as it would be if start_time were recorded by the first start only
_start_keeps_start_time ==
    IF Lt(volume, MinVolume)
    THEN /\ Raise("switch", <<>>, "KettleSwitchError")
         /\ UNCHANGED <<kettle, now, starts, sampled>>
    ELSE /\ start_time' = IF start_time = NoTime THEN now ELSE start_time
         /\ status' = ON
         /\ Return("switch", <<>>, <<>>)
         /\ starts' = IF starts < MaxStarts THEN starts + 1 ELSE starts
         /\ sampled' = <<>>
         /\ UNCHANGED <<volume, temperature, now>>

\* Kettle._start(), as called by switch
_start ==
    IF Lt(volume, MinVolume)
    THEN /\ Raise("switch", <<>>, "KettleSwitchError")
         /\ UNCHANGED <<kettle, now, starts, sampled>>
    ELSE /\ start_time' = now
         /\ status' = ON
         /\ Return("switch", <<>>, <<>>)
         /\ starts' = IF starts < MaxStarts THEN starts + 1 ELSE starts
         /\ sampled' = <<>>
         /\ UNCHANGED <<volume, temperature, now>>

\* _stop as it would be if switching a working kettle off put it back to OFF
_stop_to_off ==
    /\ status' = OFF
    /\ Return("switch", <<>>, <<>>)
    /\ UNCHANGED <<volume, temperature, start_time, now, starts, sampled>>

\* Kettle._stop(), as called by switch
_stop ==
    /\ status' = STOPPED
    /\ Return("switch", <<>>, <<>>)
    /\ UNCHANGED <<volume, temperature, start_time, now, starts, sampled>>

\* switch as it would be if only a working kettle were stopped and every
\* other status started it
switch_restarts ==
    IF status = ON
    THEN _stop
    ELSE _start

\* Kettle.switch()
switch ==
    IF status = OFF
    THEN _start
    ELSE IF status = ON
    THEN _stop
    ELSE /\ Raise("switch", <<>>, "KettleSwitchError")
         /\ UNCHANGED <<kettle, now, starts, sampled>>

\* the ramp as it would be with a floor division of the two times
Ramp_floor_division(time_since_start) ==
    (MaxTemperature - StartTemperature) * (time_since_start \div BoilingTime)

\* the temperature _update_temperature assigns time_since_start after the start
Ramp(time_since_start) ==
    ((MaxTemperature - StartTemperature) * time_since_start) \div BoilingTime

\* _update_temperature as it would be if the kettle were ready only after
\* more than boiling_time
_update_temperature_late ==
    IF status # ON
    THEN UNCHANGED <<temperature, status>>
    ELSE IF now - start_time > BoilingTime
    THEN /\ temperature' = MaxTemperature
         /\ status' = READY
    ELSE /\ temperature' = Ramp(now - start_time)
         /\ UNCHANGED status

\* _update_temperature as it would be if the boiled kettle were marked READY
\* without the assignment of max_temperature
_update_temperature_ready_cold ==
    IF status # ON
    THEN UNCHANGED <<temperature, status>>
    ELSE IF now - start_time >= BoilingTime
    THEN /\ UNCHANGED temperature
         /\ status' = READY
    ELSE /\ temperature' = Ramp(now - start_time)
         /\ UNCHANGED status

\* _update_temperature as it would be if only a kettle that is OFF were left
\* alone
_update_temperature_unless_off ==
    IF status = OFF
    THEN UNCHANGED <<temperature, status>>
    ELSE IF now - start_time >= BoilingTime
    THEN /\ temperature' = MaxTemperature
         /\ status' = READY
    ELSE /\ temperature' = Ramp(now - start_time)
         /\ UNCHANGED status

\* _update_temperature as it would be if the boiled kettle were never marked
\* READY
_update_temperature_never_ready ==
    IF status # ON
    THEN UNCHANGED <<temperature, status>>
    ELSE IF now - start_time >= BoilingTime
    THEN /\ temperature' = MaxTemperature
         /\ UNCHANGED status
    ELSE /\ temperature' = Ramp(now - start_time)
         /\ UNCHANGED status

\* Kettle._update_temperature(): the attributes it leaves behind
_update_temperature ==
    IF status # ON
    THEN UNCHANGED <<temperature, status>>
    ELSE IF now - start_time >= BoilingTime
    THEN /\ temperature' = MaxTemperature
         /\ status' = READY
    ELSE /\ temperature' = Ramp(now - start_time)
         /\ UNCHANGED status

\* Kettle.check_condition()
check_condition ==
    /\ _update_temperature
    /\ last' = [op |-> "check_condition", from |-> status, arg |-> <<>>,
                err |-> "none", ret |-> <<status', temperature'>>]
    /\ sampled' = IF status = ON
                  THEN Recent(sampled, <<now - start_time, temperature'>>)
                  ELSE sampled
    /\ UNCHANGED <<volume, start_time, now, starts>>

\* Kettle.fill_in(v), lines 49-55, when KeyboardInterrupt is raised inside the
\* call after the assignment of line 55
fill_in_interrupted(v) ==
    /\ ~Lt(v, 0)
    /\ ~Gt(v, MaxVolume)
    /\ volume' = v
    /\ Raise("fill_in", <<v>>, "KeyboardInterrupt")
    /\ UNCHANGED <<status, temperature, start_time, now, starts, sampled>>

\* Kettle._start(), lines 77-86, when KeyboardInterrupt is raised inside the
\* call: after the assignment of line 85 only, or after that of line 86 too
_start_interrupted ==
    /\ ~Lt(volume, MinVolume)
    /\ start_time' = now
    /\ \/ /\ UNCHANGED status
          /\ UNCHANGED <<starts, sampled>>
       \/ /\ status' = ON
          /\ starts' = IF starts < MaxStarts THEN starts + 1 ELSE starts
          /\ sampled' = <<>>
    /\ Raise("switch", <<>>, "KeyboardInterrupt")
    /\ UNCHANGED <<volume, temperature, now>>

\* Kettle._stop(), lines 88-89, when KeyboardInterrupt is raised inside the
\* call after the assignment of line 89
_stop_interrupted ==
    /\ status' = STOPPED
    /\ Raise("switch", <<>>, "KeyboardInterrupt")
    /\ UNCHANGED <<volume, temperature, start_time, now, starts, sampled>>

\* Kettle.switch(), lines 67-75, when KeyboardInterrupt is raised inside the
\* call after an assignment of _start or _stop
switch_interrupted ==
    \/ status = OFF /\ _start_interrupted
    \/ status = ON /\ _stop_interrupted

\* Kettle._update_temperature(), lines 95-97, when KeyboardInterrupt is raised
\* between the assignment of max_temperature and that of READY
_update_temperature_interrupted ==
    /\ status = ON
    /\ now - start_time >= BoilingTime
    /\ temperature' = MaxTemperature
    /\ UNCHANGED status

\* Kettle.check_condition(), lines 102-106, when KeyboardInterrupt is raised
\* inside the call after _update_temperature has assigned: nothing is
\* returned to the caller
check_condition_interrupted ==
    /\ \/ _update_temperature
       \/ _update_temperature_interrupted
    /\ Raise("check_condition", <<>>, "KeyboardInterrupt")
    /\ UNCHANGED <<volume, start_time, now, starts, sampled>>

\* time passes between two calls: time.time() returns a later value
Tick ==
    /\ now < MaxTime
    /\ now' = now + 1
    /\ UNCHANGED <<kettle, last, starts, sampled>>

\* the methods of a Kettle, called in any order by any caller
Next ==
    \/ \E v \in FillInputs : fill_in(v) /\ UNCHANGED main_vars
    \/ pour_out /\ UNCHANGED main_vars
    \/ switch /\ UNCHANGED main_vars
    \/ check_condition /\ UNCHANGED main_vars
    \/ Tick /\ UNCHANGED main_vars

Spec == Init /\ [][Next]_vars

TypeOK ==
    /\ volume \in (0..MaxVolume) \cup {NaN}
    /\ status \in KettleStatus
    /\ temperature \in Int
    /\ start_time \in {NoTime} \cup (0..MaxTime)
    /\ now \in 0..MaxTime
    /\ starts \in 0..MaxStarts

\* ---- main: the setup loop and the poll loop ----
\* In main one clock tick is one second: time.sleep(1) moves the clock by one
\* tick.  The kettle is started by MaxTime at the latest, the sample taken
\* BoilingTime later finds it Ready and one more sleep follows that sample,
\* so the clock of main never passes SleepLimit.
SleepLimit == MaxTime + BoilingTime + 1

\* main, lines 114-118: a volume is read and the kettle is filled; an
\* exception sends the setup loop back to the prompt
main_fill_in(v) ==
    /\ pc = "fill"
    /\ fill_in(v)
    /\ pc' = IF last'.err = "none" THEN "switch" ELSE "fill"
    /\ UNCHANGED <<current_status, condition, pending>>

\* main, lines 119-123: the kettle is switched on; an exception sends the
\* setup loop back to the prompt, otherwise the loop is left
main_switch ==
    /\ pc = "switch"
    /\ switch
    /\ pc' = IF last'.err = "none" THEN "first_sample" ELSE "fill"
    /\ UNCHANGED <<current_status, condition, pending>>

\* main, line 125
main_first_sample ==
    /\ pc = "first_sample"
    /\ check_condition
    /\ current_status' = status'
    /\ pc' = "while"
    /\ UNCHANGED <<condition, pending>>

\* main, line 126: the test of the while loop
main_while ==
    /\ pc = "while"
    /\ pc' = IF current_status = ON THEN "sample" ELSE "done"
    /\ UNCHANGED <<kettle, now, last, starts, sampled>>
    /\ UNCHANGED <<current_status, condition, pending>>

\* main, line 127
main_sample ==
    /\ pc = "sample"
    /\ check_condition
    /\ condition' = <<status', temperature'>>
    /\ pc' = "print"
    /\ UNCHANGED <<current_status, pending>>

\* main, line 128: the condition is printed, outside the try statement
main_print ==
    /\ pc = "print"
    /\ pc' = "sleep"
    /\ UNCHANGED <<kettle, now, last, starts, sampled>>
    /\ UNCHANGED <<current_status, condition, pending>>

\* main, line 130: time.sleep(1) returns after one second (the guard on the
\* clock bounds the exploration; it holds whenever main reaches this line)
main_sleep ==
    /\ pc = "sleep"
    /\ now < SleepLimit
    /\ now' = now + 1
    /\ pc' = "finally"
    /\ UNCHANGED <<kettle, last, starts, sampled>>
    /\ UNCHANGED <<current_status, condition, pending>>

\* main, lines 130-131: KeyboardInterrupt is raised in time.sleep(1), inside
\* the try statement, and is caught
main_interrupt ==
    /\ pc = "sleep"
    /\ pc' = "except"
    /\ UNCHANGED <<kettle, now, last, starts, sampled>>
    /\ UNCHANGED <<current_status, condition, pending>>

\* main, line 132: the except clause; an exception of switch is in flight
\* when the finally clause begins
main_except ==
    /\ pc = "except"
    /\ switch
    /\ pending' = last'.err
    /\ pc' = "finally"
    /\ UNCHANGED <<current_status, condition>>

\* main, line 132: KeyboardInterrupt is raised again inside switch, after
\* _stop has assigned; it is in flight when the finally clause begins
main_except_interrupted ==
    /\ pc = "except"
    /\ switch_interrupted
    /\ pending' = "KeyboardInterrupt"
    /\ pc' = "finally"
    /\ UNCHANGED <<current_status, condition>>

\* main, line 132: KeyboardInterrupt is raised again in the except clause,
\* before switch has acted; it is in flight when the finally clause begins
main_interrupt_in_except ==
    /\ pc = "except"
    /\ pending' = "KeyboardInterrupt"
    /\ pc' = "finally"
    /\ UNCHANGED <<kettle, now, last, starts, sampled>>
    /\ UNCHANGED <<current_status, condition>>

\* main outside the try statement of lines 129-132 (the prompt and the calls
\* of the setup loop, whose except Exception does not catch it, lines 125-128
\* and the finally clause): KeyboardInterrupt raised between two statements,
\* or in a call before it has assigned, is not caught and leaves main
main_interrupt_uncaught ==
    /\ pc \in {"fill", "switch", "first_sample", "while", "sample", "print",
               "finally"}
    /\ pc' = "interrupted"
    /\ UNCHANGED <<kettle, now, last, starts, sampled>>
    /\ UNCHANGED <<current_status, condition, pending>>

\* main, line 118: KeyboardInterrupt is raised inside fill_in after it has
\* assigned the volume, and leaves main
main_fill_in_interrupted(v) ==
    /\ pc = "fill"
    /\ fill_in_interrupted(v)
    /\ pc' = "interrupted"
    /\ UNCHANGED <<current_status, condition, pending>>

\* main, line 119: KeyboardInterrupt is raised inside switch after _start has
\* assigned, and leaves main
main_switch_interrupted ==
    /\ pc = "switch"
    /\ switch_interrupted
    /\ pc' = "interrupted"
    /\ UNCHANGED <<current_status, condition, pending>>

\* main, line 125: KeyboardInterrupt is raised inside check_condition after
\* the kettle is updated, and leaves main before current_status is assigned
main_first_sample_interrupted ==
    /\ pc = "first_sample"
    /\ check_condition_interrupted
    /\ pc' = "interrupted"
    /\ UNCHANGED <<current_status, condition, pending>>

\* main, line 127: KeyboardInterrupt is raised inside check_condition after
\* the kettle is updated, and leaves main before condition is assigned
main_sample_interrupted ==
    /\ pc = "sample"
    /\ check_condition_interrupted
    /\ pc' = "interrupted"
    /\ UNCHANGED <<current_status, condition, pending>>

\* main, lines 134-137: KeyboardInterrupt is raised in the finally clause
\* after the assignment of line 136, and leaves main
main_finally_interrupted ==
    /\ pc = "finally"
    /\ condition[1] # current_status
    /\ current_status' = condition[1]
    /\ pc' = "interrupted"
    /\ UNCHANGED <<kettle, now, last, starts, sampled>>
    /\ UNCHANGED <<condition, pending>>

\* the exit of the finally clause: its break discards an exception in flight,
\* without a break the exception leaves main
Leave(exception) ==
    IF exception = "none" THEN "while"
    ELSE IF exception = "KeyboardInterrupt" THEN "interrupted"
    ELSE "raised"

\* the finally clause as it would be if an exception in flight were raised
\* again before the break
main_finally_reraises ==
    /\ pc = "finally"
    /\ current_status' = IF condition[1] # current_status
                         THEN condition[1]
                         ELSE current_status
    /\ pc' = IF pending # "none" THEN Leave(pending)
             ELSE IF condition[1] # ON THEN "done"
             ELSE "while"
    /\ pending' = "none"
    /\ UNCHANGED <<kettle, now, last, starts, sampled, condition>>

\* main, lines 133-138: the finally clause
main_finally ==
    /\ pc = "finally"
    /\ current_status' = IF condition[1] # current_status
                         THEN condition[1]
                         ELSE current_status
    /\ pc' = IF condition[1] # ON THEN "done" ELSE Leave(pending)
    /\ pending' = "none"
    /\ UNCHANGED <<kettle, now, last, starts, sampled, condition>>

\* time passes between two statements of main
main_time_passes ==
    /\ pc \notin {"done", "raised", "interrupted"}
    /\ Tick
    /\ UNCHANGED main_vars

MainNext ==
    \/ \E v \in FillInputs : main_fill_in(v)
    \/ main_switch
    \/ main_first_sample
    \/ main_while
    \/ main_sample
    \/ main_sleep
    \/ main_interrupt
    \/ main_except
    \/ main_interrupt_in_except
    \/ main_finally
    \/ main_interrupt_uncaught
    \/ \E v \in FillInputs : main_fill_in_interrupted(v)
    \/ main_switch_interrupted
    \/ main_first_sample_interrupted
    \/ main_sample_interrupted
    \/ main_print
    \/ main_except_interrupted
    \/ main_finally_interrupted
    \/ main_time_passes

\* main runs: once the setup loop is left, every statement of the poll loop
\* that main has reached is eventually executed unless an interrupt comes
\* first; the prompt may wait for its input for ever, and no interrupt has
\* to come.
main_fairness ==
    /\ WF_vars(main_first_sample)
    /\ WF_vars(main_while)
    /\ WF_vars(main_sample)
    /\ WF_vars(main_print)
    /\ WF_vars(main_sleep)
    /\ WF_vars(main_except)
    /\ WF_vars(main_finally)

MainSpec == Init /\ [][MainNext]_vars /\ main_fairness

MainTypeOK ==
    /\ pc \in {"fill", "switch", "first_sample", "while", "sample", "print",
               "sleep", "except", "finally", "done", "raised", "interrupted"}
    /\ current_status \in KettleStatus \cup {"none"}
    /\ condition = <<>> \/ condition \in KettleStatus \X Int
    /\ pending \in {"none", "KettleSwitchError", "KeyboardInterrupt"}
    /\ now \in 0..SleepLimit
    /\ pc = "sleep" => now < SleepLimit
    /\ status \in KettleStatus
    /\ volume \in (0..MaxVolume) \cup {NaN}

\* ---- properties ----

\* this step is a call of the public method op (every call records itself in
\* last and reads the clock without moving it; only Tick moves the clock)
Called(op) == now' = now /\ last'.op = op

\* this step is a call of op that returned normally
Succeeded(op) == Called(op) /\ last'.err = "none"

\* this step is a call of op that raised err
Failed(op, err) == Called(op) /\ last'.err = err /\ last'.ret = <<>>

\* C1: every step leaves the status as it is or changes it by one of
\* Off -> On (switch), On -> Stopped (switch), On -> Ready (check_condition),
\* Ready -> Off and Stopped -> Off (pour_out); no other change occurs.
C1_TransitionTable ==
    [][ \/ status' = status
        \/ status = OFF /\ status' = ON /\ Succeeded("switch")
        \/ status = ON /\ status' = STOPPED /\ Succeeded("switch")
        \/ status = ON /\ status' = READY /\ Succeeded("check_condition")
        \/ status \in {READY, STOPPED} /\ status' = OFF /\ Succeeded("pour_out")
      ]_vars

\* a boiled kettle has been poured out: the Ready -> Off transition was taken
C1_Witness ==
    /\ last.op = "pour_out" /\ last.from = READY /\ last.err = "none"
    /\ status = OFF
    /\ temperature = MaxTemperature

\* C2: switch in status Ready or Stopped raises KettleSwitchError and changes
\* nothing; a Ready or Stopped kettle keeps its status until a successful
\* pour_out; and there is a successful pour_out between any two successful
\* Off -> On transitions (at most one start since the last pour_out).
C2_NoRestartWithoutPourOut ==
    /\ [](starts <= 1)
    /\ [][ /\ (Called("switch") /\ status \in {READY, STOPPED})
               => (Failed("switch", "KettleSwitchError") /\ UNCHANGED kettle)
           /\ (status \in {READY, STOPPED} /\ status' # status)
               => Succeeded("pour_out")
           /\ (status = OFF /\ status' = ON) => starts = 0
         ]_vars

\* switching a Stopped kettle that holds enough water on again was refused
C2_Witness ==
    /\ last.op = "switch" /\ last.from = STOPPED
    /\ last.err = "KettleSwitchError"
    /\ status = STOPPED
    /\ Ge(volume, MinVolume)
    /\ now > start_time

\* C3: switch in status Off with volume >= min_volume succeeds, sets the
\* status to On and start_time to the current time; with volume < min_volume
\* it raises KettleSwitchError and changes nothing; and the status becomes
\* On in no other way.
C3_PowerOn ==
    [][ /\ (Called("switch") /\ status = OFF /\ Ge(volume, MinVolume))
            => (Succeeded("switch") /\ status' = ON /\ start_time' = now
                /\ UNCHANGED <<volume, temperature>>)
        /\ (Called("switch") /\ status = OFF /\ Lt(volume, MinVolume))
            => (Failed("switch", "KettleSwitchError") /\ status' = OFF
                /\ UNCHANGED kettle)
        /\ (status # ON /\ status' = ON)
            => (status = OFF /\ Ge(volume, MinVolume) /\ Called("switch"))
      ]_vars

\* the kettle was switched on at a time later than 0 with exactly the minimum
\* volume, after a start with too little water was refused
C3_Witness ==
    /\ last.op = "switch" /\ last.from = OFF /\ last.err = "none"
    /\ status = ON
    /\ volume = MinVolume
    /\ start_time = now
    /\ now > 0

\* a start with a water level under the minimum, but not empty, was refused
C3_WitnessRefused ==
    /\ last.op = "switch" /\ last.from = OFF
    /\ last.err = "KettleSwitchError"
    /\ status = OFF
    /\ Gt(volume, 0) /\ Lt(volume, MinVolume)

\* the temperature the specification gives for a kettle that has been heating
\* for the time e: a linear ramp that begins at start_temperature
LinearRamp(e) ==
    StartTemperature + ((MaxTemperature - StartTemperature) * e) \div BoilingTime

\* C4: check_condition in status On, called at the time e since the last
\* start with 0 <= e < boiling_time, returns the temperature
\* start_temperature + (max_temperature - start_temperature) * (e / boiling_time)
\* and the status On, which the kettle keeps; at e = 0 it returns
\* start_temperature.
C4_RampFromStartTemperature ==
    [][ (/\ Called("check_condition")
         /\ status = ON
         /\ now - start_time >= 0
         /\ now - start_time < BoilingTime)
        => (/\ last'.ret = <<ON, LinearRamp(now - start_time)>>
            /\ status' = ON)
      ]_vars

\* C5: check_condition in status On at boiling_time or more after the start
\* returns (Ready, max_temperature) and leaves the kettle Ready at
\* max_temperature; every check_condition of a Ready kettle returns the same
\* pair and changes nothing.
C5_ReadyIsTerminalForSampling ==
    [][ /\ (Called("check_condition") /\ status = ON
                /\ now - start_time >= BoilingTime)
            => (/\ last'.err = "none"
                /\ last'.ret = <<READY, MaxTemperature>>
                /\ status' = READY
                /\ temperature' = MaxTemperature)
        /\ (Called("check_condition") /\ status = READY)
            => (/\ last'.err = "none"
                /\ last'.ret = <<READY, MaxTemperature>>
                /\ UNCHANGED kettle)
      ]_vars

\* a kettle that was already Ready has been sampled again, later than the
\* end of its boiling time
C5_Witness ==
    /\ last.op = "check_condition" /\ last.from = READY
    /\ last.ret = <<READY, MaxTemperature>>
    /\ status = READY
    /\ now > start_time + BoilingTime

\* C6: pour_out in status On raises KettlePouringError and changes nothing;
\* no pour_out of a working kettle succeeds.
C6_NoPouringWhileOn ==
    /\ [](~(last.op = "pour_out" /\ last.from = ON /\ last.err = "none"))
    /\ [][ (Called("pour_out") /\ status = ON)
           => (Failed("pour_out", "KettlePouringError") /\ UNCHANGED kettle)
         ]_vars

\* pouring out of a working kettle was refused, and the kettle still works
\* and holds its water
C6_Witness ==
    /\ last.op = "pour_out" /\ last.from = ON
    /\ last.err = "KettlePouringError"
    /\ status = ON
    /\ Ge(volume, MinVolume)
    /\ start_time # NoTime

\* C7: pour_out in status Off, Ready or Stopped succeeds, returns the volume
\* held before the call and leaves volume = 0 and status = Off.
C7_PourOutEmptiesAndResets ==
    [][ (Called("pour_out") /\ status \in {OFF, READY, STOPPED})
        => (/\ Succeeded("pour_out")
            /\ last'.ret = <<volume>>
            /\ volume' = 0
            /\ status' = OFF)
      ]_vars

\* a Stopped kettle that held water has been poured out
C7_Witness ==
    /\ last.op = "pour_out" /\ last.from = STOPPED /\ last.err = "none"
    /\ Len(last.ret) = 1 /\ Ge(last.ret[1], MinVolume)
    /\ volume = 0
    /\ status = OFF

\* C8: fill_in(v) with 0 <= v <= max_volume succeeds in every status and
\* leaves volume = v (not the sum with the volume held before); the status
\* does not change.
C8_FillReplacesVolume ==
    [][ (/\ Called("fill_in")
         /\ Le(0, last'.arg[1])
         /\ Le(last'.arg[1], MaxVolume))
        => (/\ Succeeded("fill_in")
            /\ volume' = last'.arg[1]
            /\ status' = status)
      ]_vars

\* a working kettle, which held at least the minimum volume when it was
\* started, has been filled to a smaller volume that is not zero
C8_Witness ==
    /\ last.op = "fill_in" /\ last.from = ON /\ last.err = "none"
    /\ status = ON
    /\ Gt(volume, 0) /\ Lt(volume, MinVolume)
    /\ last.arg = <<volume>>

\* C9: fill_in(v) with v < 0 or v > max_volume raises KettleFillingError and
\* changes nothing.
C9_FillRejectsOutOfRange ==
    [][ (/\ Called("fill_in")
         /\ (Lt(last'.arg[1], 0) \/ Gt(last'.arg[1], MaxVolume)))
        => (Failed("fill_in", "KettleFillingError") /\ UNCHANGED kettle)
      ]_vars

\* a fill of more than the capacity was refused and the water held is kept
C9_Witness ==
    /\ last.op = "fill_in" /\ last.err = "KettleFillingError"
    /\ Len(last.arg) = 1 /\ Gt(last.arg[1], MaxVolume)
    /\ Gt(volume, 0)

\* a fill of a negative volume was refused and the water held is kept
C9_WitnessNegative ==
    /\ last.op = "fill_in" /\ last.err = "KettleFillingError"
    /\ Len(last.arg) = 1 /\ Lt(last.arg[1], 0)
    /\ Gt(volume, 0)

\* C10: 0 <= volume <= max_volume in every reachable state.
C10_VolumeInRange ==
    0 <= volume /\ volume <= MaxVolume

\* the kettle is full to its capacity and a fill was just refused
C10_Witness ==
    /\ volume = MaxVolume
    /\ last.op = "fill_in" /\ last.err = "KettleFillingError"
\* C11: in every reachable state, status = Ready implies
\* temperature = max_temperature.
C11_ReadyIsAtMaxTemperature ==
    status = READY => temperature = MaxTemperature

\* the kettle was sampled after its boiling time and is Ready
C11_Witness ==
    /\ status = READY
    /\ last.op = "check_condition" /\ last.from = ON
    /\ now >= start_time + BoilingTime

\* C12: in every reachable state the temperature lies within
\* [start_temperature, max_temperature].
C12_TemperatureInRange ==
    StartTemperature <= temperature /\ temperature <= MaxTemperature

\* C13: in every reachable state start_time is set if and only if the status
\* is On.
C13_StartTimeIffOn ==
    start_time # NoTime <=> status = ON

\* What the code does keep: start_time is absent after construction and set
\* whenever the
\* status is On; it is assigned only by the Off -> On transition, which
\* records the current time, and no method clears it: it stays set in
\* Stopped, in Ready and after pour_out.
C13_StartTimeSetByPowerOnNeverCleared ==
    /\ [](status = ON => start_time # NoTime)
    /\ [](last.op = "__init__" => start_time = NoTime)
    /\ [][ /\ (start_time' # start_time)
               => (status = OFF /\ Succeeded("switch"))
           /\ (status = OFF /\ status' = ON) => start_time' = now
           /\ (start_time # NoTime) => (start_time' # NoTime)
         ]_vars

\* a kettle that was started a second time, later than the first, and then
\* stopped still carries the time of that second start
C13_Witness ==
    /\ status = STOPPED
    /\ last.op = "switch" /\ last.from = ON
    /\ start_time > 0
    /\ temperature # StartTemperature

\* C14: the temperature changes only in a check_condition call made in status
\* On; fill_in, pour_out and switch, successful or not, leave it as it is.
C14_OnlySamplingChangesTemperature ==
    [][ /\ (temperature' # temperature)
            => (Called("check_condition") /\ status = ON)
        /\ (Called("fill_in") \/ Called("pour_out") \/ Called("switch"))
            => temperature' = temperature
      ]_vars

\* a boiled kettle was poured out and filled again: it is Off and still at
\* max_temperature
C14_Witness ==
    /\ last.op = "fill_in" /\ last.from = OFF /\ last.err = "none"
    /\ status = OFF
    /\ Gt(volume, 0)
    /\ temperature = MaxTemperature

\* C15: check_condition in status Off, Ready or Stopped returns the current
\* (status, temperature) and changes nothing, whatever the time: a Stopped
\* kettle never becomes Ready and keeps its temperature.
C15_SamplingOnlyActsWhileOn ==
    [][ (Called("check_condition") /\ status # ON)
        => (/\ last'.err = "none"
            /\ last'.ret = <<status, temperature>>
            /\ UNCHANGED kettle)
      ]_vars

\* a Stopped kettle was sampled after the end of its boiling time: it is
\* still Stopped, below max_temperature
C15_Witness ==
    /\ last.op = "check_condition" /\ last.from = STOPPED
    /\ last.ret = <<STOPPED, temperature>>
    /\ status = STOPPED
    /\ now >= start_time + BoilingTime
    /\ temperature < MaxTemperature
\* C16: within one heating cycle the temperatures that successive
\* check_condition calls return do not decrease as the time since the start
\* grows, they grow strictly between two samples taken at different times
\* before boiling_time, and the max_temperature returned on reaching Ready
\* is not below the sample before it.
C16_MonotoneWithinCycle ==
    Len(sampled) = 2 =>
        /\ sampled[1][1] <= sampled[2][1]
        /\ sampled[1][2] <= sampled[2][2]
        /\ (sampled[1][1] < sampled[2][1] /\ sampled[2][1] < BoilingTime)
            => sampled[1][2] < sampled[2][2]

\* a kettle sampled during its heating was sampled again at the end of the
\* boiling time and became Ready
C16_Witness ==
    /\ Len(sampled) = 2
    /\ sampled[1][1] > 0 /\ sampled[1][1] < BoilingTime
    /\ sampled[2][1] >= BoilingTime
    /\ sampled[2][2] = MaxTemperature
    /\ status = READY

\* two samples were taken at different times of the same heating, both
\* before the boiling time
C16_WitnessHeating ==
    /\ Len(sampled) = 2
    /\ sampled[1][1] < sampled[2][1] /\ sampled[2][1] < BoilingTime
    /\ status = ON
\* C17: from every status but On, pour_out, then fill_in(v) with
\* min_volume <= v <= max_volume, then switch all succeed and leave the
\* kettle On with start_time at the time of this start; heating restarts
\* from start_temperature: the sample taken at the time of the start returns
\* start_temperature, and a sample makes the kettle Ready exactly when
\* boiling_time has passed since this start.
C17_RoundTrip ==
    [][ /\ (Called("pour_out") /\ status \in {OFF, READY, STOPPED})
            => (Succeeded("pour_out") /\ status' = OFF /\ volume' = 0)
        /\ (/\ Called("fill_in") /\ status = OFF
             /\ Le(MinVolume, last'.arg[1]) /\ Le(last'.arg[1], MaxVolume))
            => (/\ Succeeded("fill_in")
                /\ status' = OFF
                /\ volume' = last'.arg[1])
        /\ (Called("switch") /\ status = OFF /\ Ge(volume, MinVolume))
            => (Succeeded("switch") /\ status' = ON /\ start_time' = now)
        /\ (Called("check_condition") /\ status = ON /\ now = start_time)
            => last'.ret = <<ON, StartTemperature>>
        /\ (Called("check_condition") /\ status = ON)
            => (status' = READY <=> now - start_time >= BoilingTime)
      ]_vars

\* C18: in every reachable state with status = On, volume >= min_volume.
C18_NeverHeatingBelowMinVolume ==
    status = ON => Ge(volume, MinVolume)
\* main has left the poll loop: by its break or its while test, or because an
\* exception left main
LoopStopped == pc \in {"done", "raised", "interrupted"}

\* C19: once the setup loop has switched the kettle on, the poll loop of main
\* eventually stops; it goes on to a further sample only while every sample
\* so far reported On, and it stops exactly when a sample reports a status
\* other than On: when it has stopped, the last sample reported the status
\* the kettle has, which is Ready or Stopped, never On.
C19_PollLoopTerminates ==
    /\ (pc = "first_sample") ~> LoopStopped
    /\ [](pc = "sample"
            => /\ current_status = ON
               /\ (condition = <<>> \/ condition[1] = ON))
    /\ [](LoopStopped /\ current_status # "none"
            => /\ status \in {READY, STOPPED}
               /\ current_status = status)

\* What main does keep: once the setup loop has switched the kettle on, the
\* poll loop eventually stops.  Unless a KeyboardInterrupt raised outside the
\* wait leaves main (then in any status of the kettle, On included), it stops
\* exactly when a sample reports a status other than On, and the last sample
\* then reported the status the kettle has, Ready or Stopped; it goes on to
\* a further sample only while every sample so far reported On, and no
\* KettleSwitchError leaves it.
C19_PollLoopStopsOrIsInterrupted ==
    /\ (pc = "first_sample") ~> LoopStopped
    /\ [](pc # "raised")
    /\ [](pc = "sample"
            => /\ current_status = ON
               /\ (condition = <<>> \/ condition[1] = ON))
    /\ [](pc = "done"
            => /\ status \in {READY, STOPPED}
               /\ current_status = status
               /\ (condition # <<>> => condition[1] = status))

\* the poll loop has stopped after several samples of the heating kettle, the
\* last of which found it Ready
C19_Witness ==
    /\ pc = "done"
    /\ status = READY
    /\ current_status = READY
    /\ last.op = "check_condition" /\ last.from = ON
    /\ Len(sampled) = 2

\* a KeyboardInterrupt raised outside the wait has left main while the kettle
\* was heating
C19_WitnessInterrupted ==
    /\ pc = "interrupted"
    /\ status = ON
    /\ Len(sampled) = 2

\* C20: an interrupt of the wait of the poll loop calls switch before the
\* while test is evaluated again; a kettle that is On at that moment becomes
\* Stopped, the next sample reports Stopped (not On, not Ready) and the loop
\* stops; with a kettle that is already Ready the call changes nothing and
\* the loop stops all the same.
C20_InterruptStopsKettle ==
    /\ [][ /\ (pc = "sleep" /\ pc' = "except") => UNCHANGED <<kettle, now>>
           /\ (pc = "except" /\ pc' # pc) => pc' = "finally"
           /\ (pc = "except" /\ pc' # pc /\ status = ON)
               => (last'.op = "switch" /\ last'.err = "none"
                   /\ status' = STOPPED)
           /\ (pc = "except" /\ pc' # pc /\ status = READY)
               => UNCHANGED kettle
           /\ (pc = "sample" /\ pc' = "print" /\ status = STOPPED)
               => (condition' = <<STOPPED, temperature>> /\ UNCHANGED kettle)
           /\ (pc = "finally" /\ pc' # pc /\ status \in {READY, STOPPED}
                  /\ condition[1] # ON)
               => LoopStopped'
         ]_vars
    /\ (pc = "except") ~> LoopStopped
    /\ [](status = STOPPED => current_status # READY)

\* What main does keep: an interrupt of the wait is caught and, unless a further
\* KeyboardInterrupt is raised before switch has returned, switch is called
\* and returns before the while test is evaluated again; a kettle that is On
\* at that call becomes
\* Stopped, the next sample reports Stopped (not On, not Ready) and the loop
\* stops; with a kettle that is already Ready the call raises
\* KettleSwitchError and changes nothing, the break of the finally clause
\* discards the exception and the loop stops all the same.
C20_InterruptStopsKettleUnlessInterruptedAgain ==
    /\ [][ /\ (pc = "sleep" /\ pc' = "except") => UNCHANGED <<kettle, now>>
           /\ (pc = "except" /\ pc' # pc) => pc' = "finally"
           /\ (pc = "except" /\ pc' # pc /\ status = ON
                  /\ pending' # "KeyboardInterrupt")
               => (last'.op = "switch" /\ last'.err = "none"
                   /\ status' = STOPPED)
           /\ (pc = "except" /\ pc' # pc /\ status = READY
                  /\ pending' # "KeyboardInterrupt")
               => (/\ last'.op = "switch"
                   /\ last'.err = "KettleSwitchError"
                   /\ UNCHANGED kettle)
           /\ (pc = "sample" /\ pc' = "print" /\ status = STOPPED)
               => (condition' = <<STOPPED, temperature>> /\ UNCHANGED kettle)
           /\ (pc = "finally" /\ pc' # pc /\ status \in {READY, STOPPED}
                  /\ condition[1] # ON)
               => pc' \in {"done", "interrupted"}
         ]_vars
    /\ (pc = "except") ~> LoopStopped
    /\ [](status = STOPPED => current_status # READY)
    /\ [](pc # "raised")

\* the wait that followed the sample reporting Ready was interrupted, switch
\* refused, and the poll loop has stopped with the kettle Ready
C20_Witness ==
    /\ pc = "done"
    /\ last.op = "switch" /\ last.from = READY
    /\ last.err = "KettleSwitchError"
    /\ status = READY
    /\ temperature = MaxTemperature

\* a wait was interrupted while the kettle was heating, the next sample
\* reported Stopped and the poll loop has stopped
C20_WitnessStopped ==
    /\ pc = "done"
    /\ status = STOPPED
    /\ condition = <<STOPPED, temperature>>
    /\ current_status = STOPPED
====
